---- MODULE Spec2Model ----
(***************************************************************************)
(* StringScanner (src/src/lib/StringScanner.ts): a cursor over a string    *)
(* addressed both by logical character index and by storage (UTF-16 code   *)
(* unit) offset.  A string is a sequence of storage units; "H" is a high   *)
(* surrogate, "L" a low surrogate, "a" an ordinary unit.                   *)
(***************************************************************************)
EXTENDS Integers, Sequences, FiniteSets, TLC

\* ---- bounds of the exploration ----
MaxLen == 3        \* longest input string, in storage units
MaxLit == 3        \* longest literal passed to the string operations
MaxCount == 3      \* largest |count| / |index| passed to the cursor operations
MaxBack == 2       \* how far below 0 the position is followed

Units == {"a", "H", "L"}
HighSurrogates == {"H"}
LowSurrogates == {"L"}

Min(x, y) == IF x <= y THEN x ELSE y
Max(x, y) == IF x >= y THEN x ELSE y

\* `undefined` as the result of an out-of-range array lookup of an offset.
Undefined == -1
\* `undefined` where a text is expected (chars[i] out of range, ""[0]).
UndefinedText == <<"undefined">>
emptyString == <<>>

Strings(n) == UNION {[1..k -> Units] : k \in 0..n}

\* ---- JavaScript string primitives used by the scanner ----

\* [ ...string ]: split into code points; a high surrogate directly followed
\* by a low surrogate is one character, every other unit is a character.
RECURSIVE Spread(_)
Spread(s) ==
  IF s = <<>> THEN <<>>
  ELSE IF Len(s) >= 2 /\ s[1] \in HighSurrogates /\ s[2] \in LowSurrogates
       THEN <<SubSeq(s, 1, 2)>> \o Spread(SubSeq(s, 3, Len(s)))
       ELSE <<SubSeq(s, 1, 1)>> \o Spread(Tail(s))

\* String.prototype.slice(start, end) for start/end that are offsets >= 0 or
\* undefined (undefined start is 0, undefined end is the length).
Slice(s, start, end) ==
  LET from == IF start = Undefined THEN 0 ELSE Min(start, Len(s))
      to   == IF end = Undefined THEN Len(s) ELSE Min(end, Len(s))
  IN IF from >= to THEN <<>> ELSE SubSeq(s, from + 1, to)

\* String.prototype.indexOf(search, fromIndex); -1 when there is none.
IndexOf(s, search, fromIndex) ==
  LET from == IF fromIndex = Undefined THEN 0 ELSE Min(fromIndex, Len(s))
      hits == {k \in from..(Len(s) - Len(search)) :
                 SubSeq(s, k + 1, k + Len(search)) = search}
  IN IF hits = {} THEN -1
     ELSE CHOOSE k \in hits : \A j \in hits : k <= j

\* string.replace(/[\uD800-\uDBFF][\uDC00-\uDFFF]/g, '_')
RECURSIVE ReplacePairs(_)
ReplacePairs(s) ==
  IF Len(s) < 2 THEN s
  ELSE IF s[1] \in HighSurrogates /\ s[2] \in LowSurrogates
       THEN <<"_">> \o ReplacePairs(SubSeq(s, 3, Len(s)))
       ELSE <<s[1]>> \o ReplacePairs(Tail(s))

\* stringToConsume[0]
FirstUnit(s) == IF s = <<>> THEN UndefinedText ELSE <<s[1]>>

\* ---- constructor ----

\* The loop of the multibyte branch: running byte index per character.
RECURSIVE MapLoop(_, _)
MapLoop(chs, byteIndex) ==
  IF chs = <<>> THEN <<>>
  ELSE <<byteIndex>> \o MapLoop(Tail(chs), byteIndex + Len(Head(chs)))

\* Mutation: the multibyte branch forgotten, every offset is the index.
BuildCharsToBytes_identity(s) == [i \in 1..Len(Spread(s)) |-> i - 1]

BuildCharsToBytes(s) ==
  LET chs == Spread(s)
  IN IF Len(chs) = Len(s)
     THEN [i \in 1..Len(chs) |-> i - 1]
     ELSE MapLoop(chs, 0)

BuildMultiByteMode(s) == Len(Spread(s)) # Len(s)

VARIABLES
  string,         \* the input
  chars,          \* this.chars
  charCount,      \* this.charCount
  charsToBytes,   \* this.charsToBytes (JS index i is element i + 1)
  multiByteMode,  \* this.multiByteMode
  charIndex,      \* this.charIndex
  \* the last call made on the scanner
  op,             \* its name ("new" after construction)
  pre,            \* charIndex when it was called
  count,          \* its numeric argument
  text,           \* its string argument
  regex,          \* its RegExp argument, as the call left it
  lastIndexPre,   \* regex.lastIndex when it was called
  searchStart,    \* offset at which regex.exec started searching
  executed,       \* whether regex.exec ran
  ret,            \* what it returned
  threw           \* whether it threw

vars == <<string, chars, charCount, charsToBytes, multiByteMode, charIndex,
          op, pre, count, text, regex, lastIndexPre, searchStart, executed,
          ret, threw>>

scanner == <<string, chars, charCount, charsToBytes, multiByteMode>>

\* ---- array lookups ----
CharsToBytesAt(i) ==
  IF i >= 0 /\ i < charCount THEN charsToBytes[i + 1] ELSE Undefined

CharsAt(i) ==
  IF i >= 0 /\ i < charCount THEN chars[i + 1] ELSE UndefinedText

\* ---- pure parts of the methods; ci is this.charIndex at the call ----

isEnd(ci) == ci >= charCount

\* Mutation: the storage length taken for the logical length.
charLength_storage(s) == Len(s)

charLength(s) ==
  IF Len(s) < 2 \/ ~multiByteMode THEN Len(s)
  ELSE Len(ReplacePairs(s))

Advanced(ci, n) == Min(charCount, ci + n)

peek(ci, n) ==
  IF ci >= charCount THEN emptyString
  ELSE IF n = 1 THEN CharsAt(ci)
  ELSE Slice(string, CharsToBytesAt(ci), CharsToBytesAt(ci + n))

Reset(ci, index) ==
  IF index >= 0 THEN Min(charCount, index) ELSE Max(0, ci + index)

NoRegex == [cls |-> {}, min |-> 0, sticky |-> FALSE, global |-> FALSE,
            lastIndex |-> 0]

Init ==
  /\ string \in Strings(MaxLen)
  /\ chars = Spread(string)
  /\ charCount = Len(Spread(string))
  /\ charsToBytes = BuildCharsToBytes(string)
  /\ multiByteMode = BuildMultiByteMode(string)
  /\ charIndex = 0
  /\ op = "new"
  /\ pre = 0
  /\ count = 0
  /\ text = emptyString
  /\ regex = NoRegex
  /\ lastIndexPre = 0
  /\ searchStart = 0
  /\ executed = FALSE
  /\ ret = emptyString
  /\ threw = FALSE

Counts == (-MaxCount)..MaxCount

\* What a call that takes no RegExp leaves in the call record.
Plain(o, n, t, r) ==
  /\ op' = o
  /\ pre' = charIndex
  /\ count' = n
  /\ text' = t
  /\ ret' = r
  /\ regex' = NoRegex
  /\ lastIndexPre' = 0
  /\ searchStart' = 0
  /\ executed' = FALSE
  /\ threw' = FALSE

advance(n) ==
  /\ Advanced(charIndex, n) >= -MaxBack
  /\ charIndex' = Advanced(charIndex, n)
  /\ Plain("advance", n, emptyString, emptyString)
  /\ UNCHANGED scanner

reset(index) ==
  /\ charIndex' = Reset(charIndex, index)
  /\ Plain("reset", index, emptyString, emptyString)
  /\ UNCHANGED scanner

peekCall(n) ==
  /\ charIndex' = charIndex
  /\ Plain("peek", n, emptyString, peek(charIndex, n))
  /\ UNCHANGED scanner

consume(n) ==
  /\ Advanced(charIndex, n) >= -MaxBack
  /\ charIndex' = Advanced(charIndex, n)
  /\ Plain("consume", n, emptyString, peek(charIndex, n))
  /\ UNCHANGED scanner

\* ---- literal matching ----

WellFormed(s) ==
  \A i \in 1..Len(Spread(s)) :
    Spread(s)[i][1] \notin (HighSurrogates \cup LowSurrogates)
      \/ Len(Spread(s)[i]) = 2

\* Literals the grammar layer passes: whole characters only.
Literals == {s \in Strings(MaxLit) : WellFormed(s)}

\* [ret, pos]: the returned text and the resulting charIndex.
consumeStringFastResult(ci, s) ==
  IF peek(ci, 1) = FirstUnit(s)
  THEN IF Len(s) = 1
       THEN [ret |-> s, pos |-> Advanced(ci, 1)]
       ELSE IF peek(ci, Len(s)) = s
            THEN [ret |-> s, pos |-> Advanced(ci, Len(s))]
            ELSE [ret |-> emptyString, pos |-> ci]
  ELSE [ret |-> emptyString, pos |-> ci]

\* Mutation: in multibyte mode the fast path is skipped.
consumeStringResult_slowOnly(ci, s) ==
  IF ~multiByteMode
  THEN consumeStringFastResult(ci, s)
  ELSE IF charLength(s) # Len(s) /\ s = peek(ci, charLength(s))
       THEN [ret |-> s, pos |-> Advanced(ci, charLength(s))]
       ELSE [ret |-> emptyString, pos |-> ci]

\* A falsy (empty) result of the fast path leaves charIndex where it was:
\* the fast path can return "" after advance(0) only.
consumeStringResult(ci, s) ==
  LET fast == consumeStringFastResult(ci, s)
      charLengthToMatch == charLength(s)
  IN IF fast.ret # emptyString
     THEN [ret |-> s, pos |-> fast.pos]
     ELSE IF ~multiByteMode
          THEN [ret |-> emptyString, pos |-> fast.pos]
          ELSE IF charLengthToMatch # Len(s)
                  /\ s = peek(fast.pos, charLengthToMatch)
               THEN [ret |-> s, pos |-> Advanced(fast.pos, charLengthToMatch)]
               ELSE [ret |-> emptyString, pos |-> fast.pos]

consumeUntilStringResult(ci, s) ==
  LET byteIndex == CharsToBytesAt(ci)
      matchByteIndex == IndexOf(string, s, byteIndex)
      result == Slice(string, byteIndex, matchByteIndex)
  IN IF matchByteIndex <= 0
     THEN [ret |-> emptyString, pos |-> ci]
     ELSE [ret |-> result, pos |-> Advanced(ci, charLength(result))]

\* ---- predicate matching ----

\* A predicate is the set of characters it accepts (it rejects undefined).
Predicates == {{<<"a">>}, {<<"H", "L">>}, {<<"a">>, <<"H", "L">>}}

RECURSIVE FnLoop(_, _)
FnLoop(ci, fn) ==
  IF ~isEnd(ci) /\ peek(ci, 1) \in fn
  THEN FnLoop(Advanced(ci, 1), fn)
  ELSE ci

consumeMatchFnResult(ci, fn) ==
  LET end == FnLoop(ci, fn)
  IN [ret |-> IF end > ci
              THEN Slice(string, CharsToBytesAt(ci), CharsToBytesAt(end))
              ELSE emptyString,
      pos |-> end]

\* ---- regular-expression matching ----

\* A pattern is /[cls]+/ (min = 1) or /[cls]*/ (min = 0) over storage units,
\* with its flags and its lastIndex.
\* lastIndex is what an earlier use of the pattern left in it.
Classes == {{"a"}, {"H", "L"}}
LastIndexes == {2}
Patterns == [cls : Classes, min : {0, 1}, sticky : BOOLEAN, global : BOOLEAN,
             lastIndex : LastIndexes]

\* End offset of the longest run of units of cls that starts at offset i.
RECURSIVE RunEnd(_, _, _)
RunEnd(s, cls, i) ==
  IF i < Len(s) /\ s[i + 1] \in cls THEN RunEnd(s, cls, i + 1) ELSE i

Matches(re, s, i) == RunEnd(s, re.cls, i) - i >= re.min

\* RegExp.prototype.exec of a sticky or global pattern: lastIndex is read
\* through ToLength (undefined is 0); a sticky pattern tries that offset only,
\* a global one that offset and every later one; lastIndex becomes the end of
\* the match, or 0 when there is none.
Exec(re, s) ==
  LET start == IF re.lastIndex = Undefined THEN 0 ELSE re.lastIndex
      tries == IF re.sticky THEN {start} \cap (0..Len(s)) ELSE start..Len(s)
      hits  == {i \in tries : Matches(re, s, i)}
      index == CHOOSE i \in hits : \A j \in hits : i <= j
  IN IF hits = {}
     THEN [found |-> FALSE, index |-> 0, match |-> emptyString,
           lastIndex |-> 0, start |-> start]
     ELSE [found |-> TRUE, index |-> index,
           match |-> SubSeq(s, index + 1, RunEnd(s, re.cls, index)),
           lastIndex |-> RunEnd(s, re.cls, index), start |-> start]

\* Mutation: lastIndex is assigned before the sticky flag is tested.
consumeMatchResult_assignFirst(ci, re) ==
  LET result == Exec([re EXCEPT !.lastIndex = CharsToBytesAt(ci)], string)
  IN IF ~re.sticky
     THEN [threw |-> TRUE, executed |-> FALSE, start |-> 0,
           lastIndex |-> CharsToBytesAt(ci), ret |-> emptyString, pos |-> ci]
     ELSE IF ~result.found
          THEN [threw |-> FALSE, executed |-> TRUE, start |-> result.start,
                lastIndex |-> result.lastIndex, ret |-> emptyString, pos |-> ci]
          ELSE [threw |-> FALSE, executed |-> TRUE, start |-> result.start,
                lastIndex |-> result.lastIndex, ret |-> result.match,
                pos |-> Advanced(ci, charLength(result.match))]

\* [threw, executed, start, lastIndex, ret, pos].  exec never returns an
\* empty array, so `result.length === 0` is never true.
consumeMatchResult(ci, re) ==
  LET result == Exec([re EXCEPT !.lastIndex = CharsToBytesAt(ci)], string)
      match  == result.match
  IN IF ~re.sticky
     THEN [threw |-> TRUE, executed |-> FALSE, start |-> 0,
           lastIndex |-> re.lastIndex, ret |-> emptyString, pos |-> ci]
     ELSE IF ~result.found
          THEN [threw |-> FALSE, executed |-> TRUE, start |-> result.start,
                lastIndex |-> result.lastIndex, ret |-> emptyString, pos |-> ci]
          ELSE [threw |-> FALSE, executed |-> TRUE, start |-> result.start,
                lastIndex |-> result.lastIndex, ret |-> match,
                pos |-> Advanced(ci, charLength(match))]

consumeUntilMatchResult(ci, re) ==
  LET byteIndex == CharsToBytesAt(ci)
      match  == Exec([re EXCEPT !.lastIndex = byteIndex], string)
      result == Slice(string, byteIndex, match.index)
  IN IF ~re.global
     THEN [threw |-> TRUE, executed |-> FALSE, start |-> 0,
           lastIndex |-> re.lastIndex, ret |-> emptyString, pos |-> ci]
     ELSE IF ~match.found \/ match.index = byteIndex
          THEN [threw |-> FALSE, executed |-> TRUE, start |-> match.start,
                lastIndex |-> match.lastIndex, ret |-> emptyString, pos |-> ci]
          ELSE [threw |-> FALSE, executed |-> TRUE, start |-> match.start,
                lastIndex |-> match.lastIndex, ret |-> result,
                pos |-> Advanced(ci, charLength(result))]

\* What a call that takes a RegExp leaves in the call record.
WithRegex(o, re, r) ==
  /\ op' = o
  /\ pre' = charIndex
  /\ count' = 0
  /\ text' = emptyString
  /\ ret' = r.ret
  /\ regex' = [re EXCEPT !.lastIndex = r.lastIndex]
  /\ lastIndexPre' = re.lastIndex
  /\ searchStart' = r.start
  /\ executed' = r.executed
  /\ threw' = r.threw

consumeMatch(re) ==
  /\ charIndex' = consumeMatchResult(charIndex, re).pos
  /\ WithRegex("consumeMatch", re, consumeMatchResult(charIndex, re))
  /\ UNCHANGED scanner

consumeUntilMatch(re) ==
  /\ charIndex' = consumeUntilMatchResult(charIndex, re).pos
  /\ WithRegex("consumeUntilMatch", re, consumeUntilMatchResult(charIndex, re))
  /\ UNCHANGED scanner

consumeString(s) ==
  /\ charIndex' = consumeStringResult(charIndex, s).pos
  /\ Plain("consumeString", 0, s, consumeStringResult(charIndex, s).ret)
  /\ UNCHANGED scanner

consumeStringFast(s) ==
  /\ charIndex' = consumeStringFastResult(charIndex, s).pos
  /\ Plain("consumeStringFast", 0, s, consumeStringFastResult(charIndex, s).ret)
  /\ UNCHANGED scanner

consumeUntilString(s) ==
  /\ charIndex' = consumeUntilStringResult(charIndex, s).pos
  /\ Plain("consumeUntilString", 0, s, consumeUntilStringResult(charIndex, s).ret)
  /\ UNCHANGED scanner

consumeMatchFn(fn) ==
  /\ charIndex' = consumeMatchFnResult(charIndex, fn).pos
  /\ Plain("consumeMatchFn", 0, emptyString, consumeMatchFnResult(charIndex, fn).ret)
  /\ UNCHANGED scanner

\* ======================= properties =======================

Consuming == {"consume", "consumeString", "consumeStringFast", "consumeMatch",
              "consumeMatchFn", "consumeUntilMatch", "consumeUntilString"}

\* A position the data model allows.
Legal(p) == p \in 0..charCount

\* Storage offset of a legal position; that of charCount is the length.
Offset(p) == IF p = charCount THEN Len(string) ELSE charsToBytes[p + 1]

\* The source between two legal positions.
Between(p, q) == SubSeq(string, Offset(p) + 1, Offset(q))

LogicalLength(t) == Len(Spread(t))

\* C1: after any sequence of scanner operations with arbitrary integer
\* arguments, 0 <= position <= charCount.
C1_PositionInRange == charIndex >= 0 /\ charIndex <= charCount

\* C2: a consuming operation that returns the empty text, called at a
\* position in 0..charCount with any argument, leaves the position unchanged.
C2_EmptyLeavesPosition ==
  (op \in Consuming /\ ~threw /\ Legal(pre) /\ ret = emptyString)
    => charIndex = pre

\* C3: consumeMatch with a sticky pattern at a position p in 0..charCount
\* searches from the storage offset of p, accepts only a match that begins
\* there, returns a non-empty match and moves to p + its logical length, and
\* otherwise returns empty and stays at p.
C3_AnchoredAtPosition ==
  (op = "consumeMatch" /\ ~threw /\ Legal(pre)) =>
    LET off == Offset(pre)
        end == RunEnd(string, regex.cls, off)
        m   == SubSeq(string, off + 1, end)
    IN /\ searchStart = off
       /\ IF end - off >= regex.min /\ m # emptyString
          THEN ret = m /\ charIndex = pre + LogicalLength(m)
          ELSE ret = emptyString /\ charIndex = pre

\* C4: consumeUntilString(text) at a position p in 0..charCount: when the
\* first occurrence of text at or after the offset of p lies strictly after
\* it, the source up to the occurrence is returned and the position is the
\* logical index of the occurrence; otherwise empty is returned and the
\* position stays p.
C4_UntilFirstOccurrence ==
  (op = "consumeUntilString" /\ Legal(pre)) =>
    LET off  == Offset(pre)
        occ  == {k \in off..(Len(string) - Len(text)) :
                   SubSeq(string, k + 1, k + Len(text)) = text}
        first == CHOOSE k \in occ : \A j \in occ : k <= j
    IN IF occ # {} /\ first > off
       THEN /\ ret = SubSeq(string, off + 1, first)
            /\ Legal(charIndex)
            /\ Offset(charIndex) = first
       ELSE ret = emptyString /\ charIndex = pre

\* C5: consumeMatch with a pattern that is not sticky and consumeUntilMatch
\* with a pattern that is not global throw, and a call that throws changes
\* neither the position nor the pattern's lastIndex and runs no match.
C5_FlagsRejectedEagerly ==
  /\ (op = "consumeMatch" /\ ~regex.sticky) => threw
  /\ (op = "consumeUntilMatch" /\ ~regex.global) => threw
  /\ threw => /\ op \in {"consumeMatch", "consumeUntilMatch"}
              /\ charIndex = pre
              /\ regex.lastIndex = lastIndexPre
              /\ ~executed

C5_Witness ==
  /\ op = "consumeMatch"
  /\ threw
  /\ regex.global
  /\ lastIndexPre = 2
  /\ pre = 1
  /\ charCount >= 2

\* C6: for a literal of single-unit characters only (the empty one included)
\* and a position in 0..charCount, consumeString and consumeStringFast return
\* the same text and leave the same position.
SingleUnitOnly(t) == LogicalLength(t) = Len(t)

C6_FastSlowEquivalent ==
  /\ (op = "consumeString" /\ Legal(pre) /\ SingleUnitOnly(text)) =>
       [ret |-> ret, pos |-> charIndex] = consumeStringFastResult(pre, text)
  /\ (op = "consumeStringFast" /\ Legal(pre) /\ SingleUnitOnly(text)) =>
       [ret |-> ret, pos |-> charIndex] = consumeStringResult(pre, text)

C6_Witness ==
  /\ op = "consumeString"
  /\ multiByteMode
  /\ SingleUnitOnly(text)
  /\ Len(text) = 1
  /\ ret = text
  /\ charIndex = pre + 1
  /\ pre >= 1

\* C7: for every integer count c and position p in 0..charCount, peek(c)
\* leaves the position at p, and consume(c) returns what peek(c) returns
\* there, namely the next min(c, charCount - p) characters, and leaves the
\* position at p plus the number of characters returned.
C7_PeekConsumeDuality ==
  /\ (op = "peek" /\ Legal(pre)) => charIndex = pre
  /\ (op = "consume" /\ Legal(pre)) =>
       LET n == Min(count, charCount - pre)
       IN /\ ret = peek(pre, count)
          /\ ret = (IF n <= 0 THEN emptyString ELSE Between(pre, pre + n))
          /\ charIndex = pre + LogicalLength(ret)

\* C8: after construction, for every character index i the source between
\* charsToBytes[i] and charsToBytes[i + 1] (the end for the last one) is
\* chars[i]; charsToBytes[0] is 0; and multiByteMode holds exactly when
\* charCount differs from the storage length.
C8_MappingCorrect ==
  /\ Len(charsToBytes) = charCount
  /\ \A i \in 0..(charCount - 1) :
       SubSeq(string, charsToBytes[i + 1] + 1,
              IF i + 1 < charCount THEN charsToBytes[i + 2] ELSE Len(string))
         = chars[i + 1]
  /\ charCount > 0 => charsToBytes[1] = 0
  /\ multiByteMode <=> (charCount # Len(string))

C8_Witness ==
  /\ op = "new"
  /\ multiByteMode
  /\ charCount = 2
  /\ charsToBytes[2] = 2

\* C9: for a non-empty literal of whole characters and a position p in
\* 0..charCount, consumeString returns the literal and moves to p plus its
\* logical length exactly when the next characters of the source are the
\* literal; otherwise it returns empty and stays at p.
C9_ConsumeStringExact ==
  (op = "consumeString" /\ Legal(pre) /\ text # emptyString /\ WellFormed(text))
    => LET n == LogicalLength(text)
       IN IF pre + n <= charCount /\ SubSeq(chars, pre + 1, pre + n) = Spread(text)
          THEN ret = text /\ charIndex = pre + n
          ELSE ret = emptyString /\ charIndex = pre

\* The fast path accepts "a" + pair at the end of the input and its advance
\* by three is clamped to the two characters there are.
C9_Witness ==
  /\ op = "consumeString"
  /\ text = <<"a", "H", "L">>
  /\ ret = text
  /\ pre = 0
  /\ charIndex = 2
  /\ charCount = 2

\* C10: a consuming operation called at a position p in 0..charCount and
\* leaving position q returns the source between the storage offsets of p
\* and q.
C10_ReturnedSpanExact ==
  (op \in Consuming /\ ~threw /\ Legal(pre) /\ Legal(charIndex)) =>
    ret = Slice(string, Offset(pre), Offset(charIndex))


Next ==
  \/ \E n \in Counts : advance(n)
  \/ \E n \in Counts : reset(n)
  \/ \E n \in Counts : peekCall(n)
  \/ \E n \in Counts : consume(n)
  \/ \E s \in Literals : consumeString(s)
  \/ \E s \in Literals : consumeStringFast(s)
  \/ \E s \in Literals : consumeUntilString(s)
  \/ \E fn \in Predicates : consumeMatchFn(fn)
  \/ \E re \in Patterns : consumeMatch(re)
  \/ \E re \in Patterns : consumeUntilMatch(re)

Spec == Init /\ [][Next]_vars

====
